---------------------------- MODULE Spec2Model ----------------------------
(***************************************************************************)
(* MintDiff: the content classifier and the line reconciler of             *)
(* src/lib/diff.ts and the POST /api/diff handler of                       *)
(* src/app/api/diff/route.ts.                                              *)
(*                                                                         *)
(* A text is a sequence of characters (one-character strings).  A nullable *)
(* value is a sequence of length 0 (null) or 1 (the value).                *)
(***************************************************************************)
EXTENDS Integers, Sequences, FiniteSets, TLC

VARIABLES
    original,      \* computeTextDiff: first argument
    comparison,    \* computeTextDiff: second argument
    diffResult,    \* computeTextDiff: its return value, or NotComputed
    buffer,        \* classifyKind: the bytes, as runs [byte, count]
    mime,          \* classifyKind: the media type hint (nullable)
    extension,     \* classifyKind: the extension hint (nullable)
    kind,          \* classifyKind: its return value, or NotClassified
    inferredMime,  \* sniffMime: its return value, or null
    request,       \* POST: the entries of the form data, or null
    response,      \* POST: the JSON response, or NoResponse
    selected,      \* Home: the files selected, in order
    result,        \* Home: the DiffResult held, or null
    error,         \* Home: the error message shown, or null
    loading,       \* Home: a submission is being processed
    hideUnchanged, \* Home: the "Hide unchanged lines" checkbox
    pageWarnings,  \* Home: the state warnings, the warnings shown
    activeChange,  \* Home: the index of the change navigated to
    inFlight       \* Home: the files of the fetch awaiting its response, or null

diffVars == <<original, comparison, diffResult>>
classifyVars == <<buffer, mime, extension, kind, inferredMime>>
routeVars == <<request, response>>
pageVars == <<selected, result, error, loading, hideUnchanged, pageWarnings, activeChange,
              inFlight>>
vars == <<diffVars, classifyVars, routeVars, pageVars>>

-----------------------------------------------------------------------------
(* Bounds of the model                                                     *)

\* longest line sequence of a generated text
MaxLines == 3
\* longest text generated character by character
MaxChars == 3
\* most runs of a generated buffer
MaxRuns == 2
\* most form entries after the first two files
MaxExtraEntries == 1
\* the most files one drop or one choice in the file dialog brings
MaxIncoming == 2
\* the line count of the long texts, and how many of their lines change
LongLines == 40
LongChanged == 23

-----------------------------------------------------------------------------
(* Characters and generic helpers                                          *)

LF == "\n"
CR == "\r"

Null == <<>>
Some(v) == <<v>>

Max(a, b) == IF a >= b THEN a ELSE b
Min(a, b) == IF a <= b THEN a ELSE b

\* all sequences over S of length at most n
SeqsUpTo(S, n) == UNION {[1..k -> S] : k \in 0..n}

RECURSIVE Concat(_)
\* Array.prototype.join("") over a sequence of texts
Concat(ss) == IF ss = <<>> THEN <<>> ELSE Head(ss) \o Concat(Tail(ss))

-----------------------------------------------------------------------------
(* src/lib/diff.ts: newline handling                                       *)

RECURSIVE ReplaceCRLF(_)
\* value.replace(/\r\n/g, "\n")
ReplaceCRLF(s) ==
    IF s = <<>> THEN <<>>
    ELSE IF Len(s) >= 2 /\ s[1] = CR /\ s[2] = LF
         THEN <<LF>> \o ReplaceCRLF(SubSeq(s, 3, Len(s)))
         ELSE <<s[1]>> \o ReplaceCRLF(Tail(s))

\* value.replace(/\r/g, "\n")
ReplaceCR(s) == [i \in 1..Len(s) |-> IF s[i] = CR THEN LF ELSE s[i]]

\* the two replacements in the wrong order: a CR LF pair becomes two line feeds
normalizeNewlines_LoneCRFirst(value) == ReplaceCRLF(ReplaceCR(value))

normalizeNewlines(value) == ReplaceCR(ReplaceCRLF(value))

RECURSIVE SplitFrom(_, _, _)
\* String.prototype.split("\n"): cur is the piece being read, i the next index
SplitFrom(s, i, cur) ==
    IF i > Len(s) THEN <<cur>>
    ELSE IF s[i] = LF THEN <<cur>> \o SplitFrom(s, i + 1, <<>>)
         ELSE SplitFrom(s, i + 1, Append(cur, s[i]))

Split(s) == SplitFrom(s, 1, <<>>)

splitPreserve(value) ==
    IF value = <<>> THEN <<>>
    ELSE LET lines == Split(value)
         IN  IF Len(lines) > 0 /\ lines[Len(lines)] = <<>>
             THEN SubSeq(lines, 1, Len(lines) - 1)
             ELSE lines

-----------------------------------------------------------------------------
(* src/lib/diff.ts: the classifier.  A string is a sequence of characters; a  *)
(* buffer is a sequence of runs [byte, count], count >= 1 repetitions of one  *)
(* byte, so that buffers longer than the sniffing sample stay small.          *)

\* the hint list without its "text/" prefix
TEXT_MIME_HINTS_NoTextPrefix == {
    <<"a", "p", "p", "l", "i", "c", "a", "t", "i", "o", "n", "/", "j", "s", "o", "n">>,
    <<"a", "p", "p", "l", "i", "c", "a", "t", "i", "o", "n", "/", "x", "m", "l">>,
    <<"a", "p", "p", "l", "i", "c", "a", "t", "i", "o", "n", "/", "y", "a", "m", "l">>}

TEXT_MIME_HINTS == {
    <<"a", "p", "p", "l", "i", "c", "a", "t", "i", "o", "n", "/", "j", "s", "o", "n">>,
    <<"a", "p", "p", "l", "i", "c", "a", "t", "i", "o", "n", "/", "x", "m", "l">>,
    <<"a", "p", "p", "l", "i", "c", "a", "t", "i", "o", "n", "/", "y", "a", "m", "l">>,
    <<"a", "p", "p", "l", "i", "c", "a", "t", "i", "o", "n", "/", "x", "-", "y", "a", "m", "l">>,
    <<"a", "p", "p", "l", "i", "c", "a", "t", "i", "o", "n", "/", "t", "o", "m", "l">>,
    <<"a", "p", "p", "l", "i", "c", "a", "t", "i", "o", "n", "/", "j", "a", "v", "a", "s", "c", "r", "i", "p", "t">>,
    <<"a", "p", "p", "l", "i", "c", "a", "t", "i", "o", "n", "/", "t", "y", "p", "e", "s", "c", "r", "i", "p", "t">>,
    <<"a", "p", "p", "l", "i", "c", "a", "t", "i", "o", "n", "/", "g", "r", "a", "p", "h", "q", "l">>,
    <<"t", "e", "x", "t", "/">>}

TEXT_EXT_HINTS == {
    <<"t", "x", "t">>, <<"m", "d">>, <<"j", "s", "o", "n">>, <<"y", "a", "m", "l">>, <<"y", "m", "l">>, <<"x", "m", "l">>, <<"t", "o", "m", "l">>,
    <<"c", "s", "v">>, <<"t", "s">>, <<"t", "s", "x">>, <<"j", "s">>, <<"j", "s", "x">>, <<"c", "s", "s">>, <<"h", "t", "m", "l">>}

BINARY_MIME_HINTS == {
    <<"i", "m", "a", "g", "e", "/">>,
    <<"a", "u", "d", "i", "o", "/">>,
    <<"v", "i", "d", "e", "o", "/">>,
    <<"a", "p", "p", "l", "i", "c", "a", "t", "i", "o", "n", "/", "p", "d", "f">>,
    <<"a", "p", "p", "l", "i", "c", "a", "t", "i", "o", "n", "/", "z", "i", "p">>,
    <<"a", "p", "p", "l", "i", "c", "a", "t", "i", "o", "n", "/", "x", "-", "z", "i", "p", "-", "c", "o", "m", "p", "r", "e", "s", "s", "e", "d">>}

CONTROL_BYTES == (0..6) \cup (14..31)

MAX_SNIFF_BYTES == 4096

UpperCase == <<"A", "B", "C", "D", "E", "F", "G", "H", "I", "J", "K", "L", "M",
               "N", "O", "P", "Q", "R", "S", "T", "U", "V", "W", "X", "Y", "Z">>
LowerCase == <<"a", "b", "c", "d", "e", "f", "g", "h", "i", "j", "k", "l", "m",
               "n", "o", "p", "q", "r", "s", "t", "u", "v", "w", "x", "y", "z">>

\* String.prototype.toLowerCase
toLowerCase(str) ==
    [i \in 1..Len(str) |->
        IF \E k \in 1..26 : UpperCase[k] = str[i]
        THEN LowerCase[CHOOSE k \in 1..26 : UpperCase[k] = str[i]]
        ELSE str[i]]

\* String.prototype.startsWith
startsWith(str, prefix) ==
    Len(str) >= Len(prefix) /\ SubSeq(str, 1, Len(prefix)) = prefix

\* value ?? "" of a nullable string
OrEmpty(value) == IF value = Null THEN <<>> ELSE value[1]

RECURSIVE ByteLength(_)
\* buffer.length
ByteLength(buf) ==
    IF buf = <<>> THEN 0 ELSE Head(buf).count + ByteLength(Tail(buf))

RECURSIVE subarray(_, _)
\* buffer.subarray(0, n)
subarray(buf, n) ==
    IF buf = <<>> \/ n <= 0 THEN <<>>
    ELSE IF Head(buf).count >= n THEN <<[byte |-> Head(buf).byte, count |-> n]>>
         ELSE <<Head(buf)>> \o subarray(Tail(buf), n - Head(buf).count)

RECURSIVE CountControl_NulCounted(_, _)
\* a null byte counted as one more control byte, with no early return
CountControl_NulCounted(sample, controlCount) ==
    IF sample = <<>> THEN controlCount
    ELSE CountControl_NulCounted(Tail(sample),
                                 IF Head(sample).byte \in CONTROL_BYTES
                                 THEN controlCount + Head(sample).count
                                 ELSE controlCount)

RECURSIVE CountControl(_, _)
\* the for loop of controlRatio over the sample: -1 for the early return at a
\* null byte, else controlCount
CountControl(sample, controlCount) ==
    IF sample = <<>> THEN controlCount
    ELSE IF Head(sample).byte = 0 THEN -1
         ELSE CountControl(Tail(sample),
                           IF Head(sample).byte \in CONTROL_BYTES
                           THEN controlCount + Head(sample).count
                           ELSE controlCount)

\* the ratio is the fraction num / den
controlRatio(buf) ==
    LET sample == IF ByteLength(buf) > MAX_SNIFF_BYTES
                  THEN subarray(buf, MAX_SNIFF_BYTES)
                  ELSE buf
        controlCount == CountControl(sample, 0)
    IN  IF ByteLength(sample) = 0 THEN [num |-> 0, den |-> 1]
        ELSE IF controlCount = -1 THEN [num |-> 1, den |-> 1]
             ELSE [num |-> controlCount, den |-> ByteLength(sample)]

\* ratio <= 0.1
BelowTenth_Inclusive(ratio) == 10 * ratio.num <= ratio.den

\* ratio < 0.1
BelowTenth(ratio) == 10 * ratio.num < ratio.den

\* the verdict without the two extension rules
isProbablyText_NoExtensionRule(buf, mimeHint, extensionHint) ==
    LET normalizedMime == toLowerCase(OrEmpty(mimeHint))
    IN  IF \E hint \in TEXT_MIME_HINTS : startsWith(normalizedMime, hint) THEN TRUE
        ELSE IF \E hint \in BINARY_MIME_HINTS : startsWith(normalizedMime, hint) THEN FALSE
        ELSE BelowTenth(controlRatio(buf))

isProbablyText(buf, mimeHint, extensionHint) ==
    LET normalizedMime == toLowerCase(OrEmpty(mimeHint))
    IN  IF \E hint \in TEXT_MIME_HINTS : startsWith(normalizedMime, hint) THEN TRUE
        ELSE IF \E hint \in BINARY_MIME_HINTS : startsWith(normalizedMime, hint) THEN FALSE
        ELSE IF /\ normalizedMime \in {<<"a", "p", "p", "l", "i", "c", "a", "t", "i", "o", "n", "/", "o", "c", "t", "e", "t", "-", "s", "t", "r", "e", "a", "m">>,
                                       <<>>,
                                       <<"a", "p", "p", "l", "i", "c", "a", "t", "i", "o", "n", "/", "x", "-", "e", "m", "p", "t", "y">>}
                /\ toLowerCase(OrEmpty(extensionHint)) \in TEXT_EXT_HINTS
             THEN TRUE
        ELSE IF /\ extensionHint # Null
                /\ extensionHint[1] # <<>>
                /\ toLowerCase(extensionHint[1]) \in TEXT_EXT_HINTS
             THEN TRUE
        ELSE BelowTenth(controlRatio(buf))

classifyKind(buf, mimeHint, extensionHint) ==
    IF isProbablyText(buf, mimeHint, extensionHint) THEN "text" ELSE "binary"

\* name.lastIndexOf("."), 0-based, -1 when there is none
lastIndexOfDot(name) ==
    LET dots == {i \in 1..Len(name) : name[i] = "."}
    IN  IF dots = {} THEN -1
        ELSE (CHOOSE i \in dots : \A j \in dots : j <= i) - 1

extensionOf(name) ==
    LET last == lastIndexOfDot(name)
    IN  IF last = -1 \/ last = Len(name) - 1 THEN <<>>
        ELSE toLowerCase(SubSeq(name, last + 2, Len(name)))

RECURSIVE Canonical(_)
\* the bytes of a buffer, runs of the same byte merged: equal for two buffers
\* exactly when their bytes are equal
Canonical(buf) ==
    IF Len(buf) <= 1 THEN buf
    ELSE LET rest == Canonical(Tail(buf))
         IN  IF Head(buf).byte = Head(rest).byte
             THEN <<[byte |-> Head(buf).byte,
                     count |-> Head(buf).count + Head(rest).count]>> \o Tail(rest)
             ELSE <<Head(buf)>> \o rest

\* the SHA-256 digest, taken as collision-free: the digest of a buffer is its bytes
hashBuffer(buf) == Canonical(buf)

\* the bytes a signature starts with, one run per byte
Signature(bytes) == [i \in 1..Len(bytes) |-> [byte |-> bytes[i], count |-> 1]]

PdfSignature == Signature(<<37, 80, 68, 70>>)
PngSignature == Signature(<<137, 80, 78, 71, 13, 10, 26, 10>>)
GzipSignature == Signature(<<31, 139, 8>>)

\* buffer starts with the bytes of signature
HasSignature(buf, signature) ==
    LET c == Canonical(subarray(buf, Len(signature)))
    IN  c = Canonical(signature)

\* fileTypeFromBuffer of the npm package "file-type", for the three signatures
\* of the model: the detected media type, or null
fileTypeFromBuffer(buf) ==
    IF HasSignature(buf, PngSignature) THEN Some(<<"i", "m", "a", "g", "e", "/", "p", "n", "g">>)
    ELSE IF HasSignature(buf, PdfSignature) THEN Some(<<"a", "p", "p", "l", "i", "c", "a", "t", "i", "o", "n", "/", "p", "d", "f">>)
    ELSE IF HasSignature(buf, GzipSignature) THEN Some(<<"a", "p", "p", "l", "i", "c", "a", "t", "i", "o", "n", "/", "g", "z", "i", "p">>)
    ELSE Null

\* the declared type consulted before the signature
sniffMime_DeclaredFirst(buf, provided, ext) ==
    LET detected == fileTypeFromBuffer(buf)
    IN  IF provided # Null /\ provided[1] # <<>> THEN provided[1]
        ELSE IF detected # Null THEN detected[1]
        ELSE IF toLowerCase(OrEmpty(ext)) \in TEXT_EXT_HINTS THEN <<"t", "e", "x", "t", "/", "p", "l", "a", "i", "n">>
        ELSE <<"a", "p", "p", "l", "i", "c", "a", "t", "i", "o", "n", "/", "o", "c", "t", "e", "t", "-", "s", "t", "r", "e", "a", "m">>

\* provided and ext are nullable strings
sniffMime(buf, provided, ext) ==
    LET detected == fileTypeFromBuffer(buf)
    IN  IF detected # Null /\ detected[1] # <<>> THEN detected[1]
        ELSE IF provided # Null /\ provided[1] # <<>> THEN provided[1]
        ELSE IF toLowerCase(OrEmpty(ext)) \in TEXT_EXT_HINTS THEN <<"t", "e", "x", "t", "/", "p", "l", "a", "i", "n">>
        ELSE <<"a", "p", "p", "l", "i", "c", "a", "t", "i", "o", "n", "/", "o", "c", "t", "e", "t", "-", "s", "t", "r", "e", "a", "m">>

\* TextDecoder("utf-8").decode of one byte below 128: the character with that code
DecodeByte(byte) ==
    CASE byte = 10 -> LF
      [] byte = 13 -> CR
      [] byte = 97 -> "a"
      [] byte = 98 -> "b"
      [] byte = 0 -> "NUL"
      [] OTHER -> "?"

RECURSIVE DecodeRuns(_)
DecodeRuns(buf) ==
    IF buf = <<>> THEN <<>>
    ELSE [i \in 1..Head(buf).count |-> DecodeByte(Head(buf).byte)] \o DecodeRuns(Tail(buf))

decodeText(buf) == normalizeNewlines(DecodeRuns(buf))

buildDescriptor(name, mimeType, buf, fileKind, warnings) ==
    [name |-> name,
     extension |-> extensionOf(name),
     size |-> ByteLength(buf),
     mime |-> mimeType,
     hash |-> hashBuffer(buf),
     kind |-> fileKind,
     warnings |-> warnings]

-----------------------------------------------------------------------------
(* diffLines of the npm package "diff", as src/lib/diff.ts calls it (no    *)
(* options): the line tokenizer and the Myers shortest-edit-script search  *)
(* of its Diff base class (release 5.2 and later, which breaks ties in    *)
(* favour of deletions before insertions).                                 *)

\* lineDiff.tokenize: value.split(/(\n|\r\n)/), every separator merged into the
\* line before it, the empty piece after a final separator dropped
Tokenize(value) ==
    LET p == Split(value)
        k == Len(p)
        body == [i \in 1..(k - 1) |-> Append(p[i], LF)]
    IN  IF p[k] = <<>> THEN body ELSE Append(body, p[k])

\* Diff.equals with no options: strict equality of the tokens
TokenEquals(left, right) == left = right

NoPath == [def |-> FALSE, oldPos |-> -1, comps |-> <<>>]

\* Diff.addToPath
AddToPath(path, added, removed, oldPosInc) ==
    LET cs == path.comps
        n == Len(cs)
    IN  IF n > 0 /\ cs[n].added = added /\ cs[n].removed = removed
        THEN [def |-> TRUE, oldPos |-> path.oldPos + oldPosInc,
              comps |-> [cs EXCEPT ![n].count = @ + 1]]
        ELSE [def |-> TRUE, oldPos |-> path.oldPos + oldPosInc,
              comps |-> Append(cs, [count |-> 1, added |-> added, removed |-> removed])]

RECURSIVE CommonCount(_, _, _, _)
\* the while loop of Diff.extractCommon; positions are 0-based as in the code
CommonCount(newTokens, oldTokens, newPos, oldPos) ==
    IF /\ newPos + 1 < Len(newTokens)
       /\ oldPos + 1 < Len(oldTokens)
       /\ TokenEquals(oldTokens[oldPos + 2], newTokens[newPos + 2])
    THEN 1 + CommonCount(newTokens, oldTokens, newPos + 1, oldPos + 1)
    ELSE 0

\* Diff.extractCommon: the path extended along its diagonal, and the new position
ExtractCommon(basePath, newTokens, oldTokens, diagonalPath) ==
    LET c == CommonCount(newTokens, oldTokens,
                         basePath.oldPos - diagonalPath, basePath.oldPos)
    IN  [path |-> [def |-> TRUE,
                   oldPos |-> basePath.oldPos + c,
                   comps |-> IF c > 0
                             THEN Append(basePath.comps,
                                         [count |-> c, added |-> FALSE, removed |-> FALSE])
                             ELSE basePath.comps],
         newPos |-> basePath.oldPos - diagonalPath + c]

RECURSIVE DiagonalLoop(_, _, _, _, _)
\* the for loop of execEditLength over the diagonals of one edit length;
\* st = [best, minD, maxD] is bestPath with min/maxDiagonalToConsider
DiagonalLoop(diagonalPath, editLength, st, newTokens, oldTokens) ==
    IF diagonalPath > Min(st.maxD, editLength)
    THEN [done |-> FALSE, st |-> st, comps |-> <<>>]
    ELSE
      LET newLen == Len(newTokens)
          oldLen == Len(oldTokens)
          removePath == st.best[diagonalPath - 1]
          addPath == st.best[diagonalPath + 1]
          best1 == [st.best EXCEPT ![diagonalPath - 1] = NoPath]
          canAdd == /\ addPath.def
                    /\ 0 <= addPath.oldPos - diagonalPath
                    /\ addPath.oldPos - diagonalPath < newLen
          canRemove == removePath.def /\ removePath.oldPos + 1 < oldLen
      IN  IF ~canAdd /\ ~canRemove
          THEN DiagonalLoop(diagonalPath + 2, editLength,
                            [st EXCEPT !.best = [best1 EXCEPT ![diagonalPath] = NoPath]],
                            newTokens, oldTokens)
          ELSE
            LET basePath == IF ~canRemove \/ (canAdd /\ removePath.oldPos < addPath.oldPos)
                            THEN AddToPath(addPath, TRUE, FALSE, 0)
                            ELSE AddToPath(removePath, FALSE, TRUE, 1)
                ex == ExtractCommon(basePath, newTokens, oldTokens, diagonalPath)
            IN  IF ex.path.oldPos + 1 >= oldLen /\ ex.newPos + 1 >= newLen
                THEN [done |-> TRUE, st |-> st, comps |-> ex.path.comps]
                ELSE DiagonalLoop(diagonalPath + 2, editLength,
                        [best |-> [best1 EXCEPT ![diagonalPath] = ex.path],
                         maxD |-> IF ex.path.oldPos + 1 >= oldLen
                                  THEN Min(st.maxD, diagonalPath - 1) ELSE st.maxD,
                         minD |-> IF ex.newPos + 1 >= newLen
                                  THEN Max(st.minD, diagonalPath + 1) ELSE st.minD],
                        newTokens, oldTokens)

RECURSIVE EditLoop(_, _, _, _)
\* while (editLength <= maxEditLength) { ret = execEditLength(); ... }
EditLoop(editLength, st, newTokens, oldTokens) ==
    IF editLength > Len(newTokens) + Len(oldTokens) THEN <<>>
    ELSE LET r == DiagonalLoop(Max(st.minD, -editLength), editLength, st,
                               newTokens, oldTokens)
         IN  IF r.done THEN r.comps
             ELSE EditLoop(editLength + 1, r.st, newTokens, oldTokens)

\* Diff.diff up to buildValues: the components [count, added, removed] in order
DiffComponents(oldTokens, newTokens) ==
    LET span == Len(newTokens) + Len(oldTokens) + 2
        seed == ExtractCommon([def |-> TRUE, oldPos |-> -1, comps |-> <<>>],
                              newTokens, oldTokens, 0)
    IN  IF seed.path.oldPos + 1 >= Len(oldTokens) /\ seed.newPos + 1 >= Len(newTokens)
        THEN seed.path.comps
        ELSE EditLoop(1,
                      [best |-> [d \in (-span)..span |->
                                    IF d = 0 THEN seed.path ELSE NoPath],
                       minD |-> -span, maxD |-> span],
                      newTokens, oldTokens)

RECURSIVE BuildValues(_, _, _, _, _)
\* buildValues: every component gets its value, the join of its tokens
BuildValues(components, k, newTokens, oldTokens, pos) ==
    IF k > Len(components) THEN <<>>
    ELSE LET c == components[k]
         IN  IF ~c.removed
             THEN <<[count |-> c.count, added |-> c.added, removed |-> FALSE,
                     value |-> Concat(SubSeq(newTokens, pos.new + 1, pos.new + c.count))]>>
                  \o BuildValues(components, k + 1, newTokens, oldTokens,
                                 [new |-> pos.new + c.count,
                                  old |-> IF c.added THEN pos.old ELSE pos.old + c.count])
             ELSE <<[count |-> c.count, added |-> FALSE, removed |-> TRUE,
                     value |-> Concat(SubSeq(oldTokens, pos.old + 1, pos.old + c.count))]>>
                  \o BuildValues(components, k + 1, newTokens, oldTokens,
                                 [new |-> pos.new, old |-> pos.old + c.count])

diffLines(oldStr, newStr) ==
    LET oldTokens == Tokenize(oldStr)
        newTokens == Tokenize(newStr)
    IN  BuildValues(DiffComponents(oldTokens, newTokens), 1, newTokens, oldTokens,
                    [new |-> 0, old |-> 0])

-----------------------------------------------------------------------------
(* src/lib/diff.ts: computeTextDiff                                        *)

NotComputed == [computed |-> FALSE]

DiffLine(type, oldNumber, newNumber, before, after) ==
    [type |-> type, oldNumber |-> oldNumber, newNumber |-> newNumber,
     before |-> before, after |-> after]

\* removedLines[j] ?? null (j is 0-based)
At(lines, j) == IF j + 1 <= Len(lines) THEN Some(lines[j + 1]) ELSE Null

RECURSIVE ModificationGroup_PairsOnly(_, _, _, _)
\* the pairs of a removed and an added block only, the longer block's other
\* lines dropped
ModificationGroup_PairsOnly(removedLines, addedLines, j, acc) ==
    IF j >= Min(Len(removedLines), Len(addedLines)) THEN acc
    ELSE ModificationGroup_PairsOnly(removedLines, addedLines, j + 1,
           [acc EXCEPT !.diff = Append(@, DiffLine("modified", Some(acc.oldLine),
                                                   Some(acc.newLine),
                                                   Some(removedLines[j + 1]),
                                                   Some(addedLines[j + 1]))),
                       !.oldLine = @ + 1, !.newLine = @ + 1, !.modified = @ + 1])

RECURSIVE ModificationGroup(_, _, _, _)
\* the inner for loop over j of a removed block followed by an added block;
\* acc = [diff, added, removed, modified, oldLine, newLine]
ModificationGroup(removedLines, addedLines, j, acc) ==
    IF j >= Max(Len(removedLines), Len(addedLines)) THEN acc
    ELSE
      LET before == At(removedLines, j)
          after == At(addedLines, j)
      IN  IF before # Null /\ after # Null
          THEN ModificationGroup(removedLines, addedLines, j + 1,
                 [acc EXCEPT !.diff = Append(@, DiffLine("modified", Some(acc.oldLine),
                                                         Some(acc.newLine), before, after)),
                             !.oldLine = @ + 1, !.newLine = @ + 1, !.modified = @ + 1])
          ELSE IF before # Null
          THEN ModificationGroup(removedLines, addedLines, j + 1,
                 [acc EXCEPT !.diff = Append(@, DiffLine("removed", Some(acc.oldLine),
                                                         Null, before, Null)),
                             !.oldLine = @ + 1, !.removed = @ + 1])
          ELSE IF after # Null
          THEN ModificationGroup(removedLines, addedLines, j + 1,
                 [acc EXCEPT !.diff = Append(@, DiffLine("added", Null,
                                                         Some(acc.newLine), Null, after)),
                             !.newLine = @ + 1, !.added = @ + 1])
          ELSE ModificationGroup(removedLines, addedLines, j + 1, acc)

RECURSIVE AddedRun_OldNumber(_, _, _)
\* an added line that carries the old counter as its oldNumber
AddedRun_OldNumber(lines, k, acc) ==
    IF k > Len(lines) THEN acc
    ELSE AddedRun_OldNumber(lines, k + 1,
           [acc EXCEPT !.diff = Append(@, DiffLine("added", Some(acc.oldLine),
                                                   Some(acc.newLine),
                                                   Null, Some(lines[k]))),
                       !.newLine = @ + 1, !.added = @ + 1])

RECURSIVE AddedRun(_, _, _)
\* lines.forEach of a standalone added block
AddedRun(lines, k, acc) ==
    IF k > Len(lines) THEN acc
    ELSE AddedRun(lines, k + 1,
           [acc EXCEPT !.diff = Append(@, DiffLine("added", Null, Some(acc.newLine),
                                                   Null, Some(lines[k]))),
                       !.newLine = @ + 1, !.added = @ + 1])

RECURSIVE RemovedRun_NoAdvance(_, _, _)
\* removed lines that leave the old counter where it is
RemovedRun_NoAdvance(lines, k, acc) ==
    IF k > Len(lines) THEN acc
    ELSE RemovedRun_NoAdvance(lines, k + 1,
           [acc EXCEPT !.diff = Append(@, DiffLine("removed", Some(acc.oldLine), Null,
                                                   Some(lines[k]), Null)),
                       !.removed = @ + 1])

RECURSIVE RemovedRun(_, _, _)
\* lines.forEach of a standalone removed block
RemovedRun(lines, k, acc) ==
    IF k > Len(lines) THEN acc
    ELSE RemovedRun(lines, k + 1,
           [acc EXCEPT !.diff = Append(@, DiffLine("removed", Some(acc.oldLine), Null,
                                                   Some(lines[k]), Null)),
                       !.oldLine = @ + 1, !.removed = @ + 1])

RECURSIVE UnchangedRun_SkipsEmpty(_, _, _)
\* an unchanged block whose empty lines are not emitted
UnchangedRun_SkipsEmpty(lines, k, acc) ==
    IF k > Len(lines) THEN acc
    ELSE UnchangedRun_SkipsEmpty(lines, k + 1,
           IF lines[k] = <<>> THEN acc
           ELSE [acc EXCEPT !.diff = Append(@, DiffLine("unchanged", Some(acc.oldLine),
                                                        Some(acc.newLine),
                                                        Some(lines[k]), Some(lines[k]))),
                            !.oldLine = @ + 1, !.newLine = @ + 1])

RECURSIVE UnchangedRun(_, _, _)
\* lines.forEach of an unchanged block
UnchangedRun(lines, k, acc) ==
    IF k > Len(lines) THEN acc
    ELSE UnchangedRun(lines, k + 1,
           [acc EXCEPT !.diff = Append(@, DiffLine("unchanged", Some(acc.oldLine),
                                                   Some(acc.newLine),
                                                   Some(lines[k]), Some(lines[k]))),
                       !.oldLine = @ + 1, !.newLine = @ + 1])

\* a removed block is never paired with the added block after it
IsModificationGroup_Never(changes, i) == FALSE

\* current.removed && next?.added
IsModificationGroup(changes, i) ==
    /\ changes[i].removed
    /\ i + 1 <= Len(changes)
    /\ changes[i + 1].added

RECURSIVE ChangesLoop(_, _, _)
\* for (let i = 0; i < changes.length; i += 1); i is 1-based here
ChangesLoop(changes, i, acc) ==
    IF i > Len(changes) THEN acc
    ELSE
      LET current == changes[i]
      IN  IF IsModificationGroup(changes, i)
          THEN ChangesLoop(changes, i + 2,
                 ModificationGroup(splitPreserve(current.value),
                                   splitPreserve(changes[i + 1].value), 0, acc))
          ELSE IF current.added
          THEN ChangesLoop(changes, i + 1, AddedRun(splitPreserve(current.value), 1, acc))
          ELSE IF current.removed
          THEN ChangesLoop(changes, i + 1, RemovedRun(splitPreserve(current.value), 1, acc))
          ELSE ChangesLoop(changes, i + 1, UnchangedRun(splitPreserve(current.value), 1, acc))

(* JavaScript numbers are IEEE-754 doubles.  A positive double is modelled as  *)
(* [bits, exp]: its 53 significant bits, most significant first, and the     *)
(* exponent of the first bit (the value is the sum of bits[i] * 2^(exp+1-i)). *)

MantissaBits == 53

RECURSIVE Pow2(_)
Pow2(n) == IF n = 0 THEN 1 ELSE 2 * Pow2(n - 1)

RECURSIVE Log2Floor(_, _)
\* the e with y * 2^e <= x < y * 2^(e+1), for x > 0, y > 0 (e may be negative)
Log2Floor(x, y) ==
    IF x >= 2 * y THEN 1 + Log2Floor(x, 2 * y)
    ELSE IF x < y THEN Log2Floor(2 * x, y) - 1
    ELSE 0

RECURSIVE QuotientBits(_, _, _)
\* n further bits of the binary expansion of r / d (r < d), with the last
\* remainder: long division, the second half of the bits after the first
QuotientBits(r, d, n) ==
    IF n = 1
    THEN LET b == IF 2 * r >= d THEN 1 ELSE 0
         IN  [bits |-> <<b>>, rem |-> 2 * r - b * d]
    ELSE LET first == QuotientBits(r, d, n \div 2)
             second == QuotientBits(first.rem, d, n - n \div 2)
         IN  [bits |-> first.bits \o second.bits, rem |-> second.rem]

\* bits + 1, most significant bit first; a carry out lengthens the sequence
Increment(bits) ==
    LET zeros == {i \in 1..Len(bits) : bits[i] = 0}
    IN  IF zeros = {} THEN <<1>> \o [i \in 1..Len(bits) |-> 0]
        ELSE LET k == CHOOSE i \in zeros : \A j \in zeros : j <= i
             IN  [i \in 1..Len(bits) |->
                    IF i < k THEN bits[i] ELSE IF i = k THEN 1 ELSE 0]

\* round to nearest, ties to even: wide holds more than 53 bits from exponent exp,
\* sticky tells whether anything non-zero lies beyond them
RoundToDouble(wide, exp, sticky) ==
    LET mant == SubSeq(wide, 1, MantissaBits)
        guard == wide[MantissaBits + 1]
        below == sticky \/ (\E i \in (MantissaBits + 2)..Len(wide) : wide[i] = 1)
        up == guard = 1 /\ (below \/ mant[MantissaBits] = 1)
        inc == Increment(mant)
    IN  IF ~up THEN [bits |-> mant, exp |-> exp]
        ELSE IF Len(inc) > MantissaBits
             THEN [bits |-> SubSeq(inc, 1, MantissaBits), exp |-> exp + 1]
             ELSE [bits |-> inc, exp |-> exp]

\* the double x / y for integers x > 0, y > 0
DoubleDivide(x, y) ==
    LET e == Log2Floor(x, y)
        n == IF e < 0 THEN x * Pow2(-e) ELSE x
        d == IF e > 0 THEN y * Pow2(e) ELSE y
        q == QuotientBits(n - d, d, MantissaBits)
    IN  RoundToDouble(<<1>> \o q.bits, e, q.rem # 0)

\* the integer a bit sequence (most significant first, under 31 bits) denotes
BitsValue(bits) ==
    LET n == Len(bits)
        partial[i \in 0..n] == IF i = 0 THEN 0 ELSE 2 * partial[i - 1] + bits[i]
    IN  partial[n]

\* the n low bits of v, most significant first
IntBits(v, n) == [i \in 1..n |-> (v \div Pow2(n - i)) % 2]

LimbBits == 18

\* the double v * 100 for a positive double v: the 53 bits are three limbs of 18
\* bits (after a leading zero), each multiplied by 25, and 100 = 25 * 2^2
DoubleTimes100(v) ==
    LET b == <<0>> \o v.bits
        base == Pow2(LimbBits)
        p0 == 25 * BitsValue(SubSeq(b, 2 * LimbBits + 1, 3 * LimbBits))
        p1 == 25 * BitsValue(SubSeq(b, LimbBits + 1, 2 * LimbBits)) + p0 \div base
        p2 == 25 * BitsValue(SubSeq(b, 1, LimbBits)) + p1 \div base
        top == Log2Floor(p2, 1) + 1
        wide == IntBits(p2, top) \o IntBits(p1 % base, LimbBits)
                                 \o IntBits(p0 % base, LimbBits)
    IN  RoundToDouble(wide, v.exp - (MantissaBits - 1) + 2 + (Len(wide) - 1), FALSE)

\* Math.round of a positive double below 2^31: floor(v + 1/2)
MathRound(v) ==
    LET whole == IF v.exp >= 0 THEN BitsValue(SubSeq(v.bits, 1, v.exp + 1)) ELSE 0
        half == IF v.exp >= -1 THEN v.bits[v.exp + 2] ELSE 0
    IN  whole + half

\* Math.round((x / y) * 100) for integers x >= 0, y > 0
RoundPercent(x, y) ==
    IF x = 0 THEN 0 ELSE MathRound(DoubleTimes100(DoubleDivide(x, y)))

\* totalLines === 0 ? 0 : Math.min(100, Math.max(0, Math.round(...)))
ChangePercent(changesCount, totalLines) ==
    IF totalLines = 0 THEN 0
    ELSE Min(100, Max(0, RoundPercent(changesCount, totalLines)))

Summary(acc, leftLines, rightLines) ==
    LET totalLines == Max(Len(leftLines), Len(rightLines))
        changesCount == acc.added + acc.removed + acc.modified
    IN  [identical |-> changesCount = 0,
         totalLines |-> totalLines,
         added |-> acc.added,
         removed |-> acc.removed,
         modified |-> acc.modified,
         changePercent |-> ChangePercent(changesCount, totalLines)]

\* the edit script computed against the comparison as given, not normalized
computeTextDiff_RawRight(orig, comp) ==
    LET normalizedLeft == normalizeNewlines(orig)
        normalizedRight == normalizeNewlines(comp)
        leftLines == splitPreserve(normalizedLeft)
        rightLines == splitPreserve(normalizedRight)
        changes == diffLines(normalizedLeft, comp)
        acc == ChangesLoop(changes, 1,
                           [diff |-> <<>>, added |-> 0, removed |-> 0, modified |-> 0,
                            oldLine |-> 1, newLine |-> 1])
    IN  [computed |-> TRUE,
         lines |-> acc.diff,
         summary |-> Summary(acc, leftLines, rightLines)]

computeTextDiff(orig, comp) ==
    LET normalizedLeft == normalizeNewlines(orig)
        normalizedRight == normalizeNewlines(comp)
        leftLines == splitPreserve(normalizedLeft)
        rightLines == splitPreserve(normalizedRight)
        changes == diffLines(normalizedLeft, normalizedRight)
        acc == ChangesLoop(changes, 1,
                           [diff |-> <<>>, added |-> 0, removed |-> 0, modified |-> 0,
                            oldLine |-> 1, newLine |-> 1])
    IN  [computed |-> TRUE,
         lines |-> acc.diff,
         summary |-> Summary(acc, leftLines, rightLines)]

-----------------------------------------------------------------------------
(* src/app/api/diff/route.ts                                               *)

MAX_FILE_SIZE == 5 * 1024 * 1024
\* a combined limit of 10 MB
MAX_COMBINED_SIZE_TenMB == 10 * 1024 * 1024
MAX_COMBINED_SIZE == 8 * 1024 * 1024
BLOCKED_MIME_PREFIXES == {<<"v", "i", "d", "e", "o", "/">>, <<"a", "u", "d", "i", "o", "/">>}

validationError(message) == [status |-> 400, error |-> message]

\* a form entry has a field name and is a File [isFile, name, type, buffer] or a
\* string [isFile]
IsFile(entry) == entry.isFile

\* formData.getAll(name): the entries of that field, in order
getAll(formData, name) == SelectSeq(formData[1], LAMBDA entry : entry.field = name)

\* file.size
FileSize(file) == ByteLength(file.buffer)

loadFile(file) ==
    LET ext == extensionOf(file.name)
        mimeType == sniffMime(file.buffer, Some(file.type), Some(ext))
        fileKind == classifyKind(file.buffer, Some(mimeType), Some(ext))
        warnings == IF \E prefix \in BLOCKED_MIME_PREFIXES : startsWith(mimeType, prefix)
                    THEN <<"Large media files are blocked in the MVP. Provide text-like files instead.">>
                    ELSE <<>>
        text == IF fileKind = "text" /\ Len(warnings) = 0
                THEN Some(decodeText(file.buffer))
                ELSE Null
    IN  [descriptor |-> buildDescriptor(file.name, mimeType, file.buffer, fileKind,
                                        IF Len(warnings) > 0 THEN Some(warnings) ELSE Null),
         text |-> text]

\* !loaded.text: undefined or the empty string
NoText(loaded) == loaded.text = Null \/ loaded.text[1] = <<>>

TextPair(left, right) ==
    IF NoText(left) \/ NoText(right)
    THEN validationError("Could not read text contents from both files.")
    ELSE LET diff == computeTextDiff(left.text[1], right.text[1])
             warnings == OrEmpty(left.descriptor.warnings)
                           \o OrEmpty(right.descriptor.warnings)
         IN  [status |-> 200,
              files |-> <<left.descriptor, right.descriptor>>,
              summary |-> diff.summary,
              textDiff |-> Some(diff.lines),
              warnings |-> IF Len(warnings) > 0 THEN Some(warnings) ELSE Null]

\* the answer for a binary or mixed pair without the binary warning
BinaryPair_NoWarning(left, right) ==
    LET hashesMatch == left.descriptor.hash = right.descriptor.hash
        sizesMatch == left.descriptor.size = right.descriptor.size
        warnings == OrEmpty(left.descriptor.warnings)
                      \o OrEmpty(right.descriptor.warnings)
    IN  [status |-> 200,
         files |-> <<left.descriptor, right.descriptor>>,
         summary |-> [identical |-> hashesMatch /\ sizesMatch,
                      totalLines |-> 0,
                      added |-> 0,
                      removed |-> 0,
                      modified |-> 0,
                      changePercent |-> IF hashesMatch /\ sizesMatch THEN 0 ELSE 100],
         textDiff |-> Null,
         warnings |-> IF Len(warnings) > 0 THEN Some(warnings) ELSE Null]

BinaryPair(left, right) ==
    LET hashesMatch == left.descriptor.hash = right.descriptor.hash
        sizesMatch == left.descriptor.size = right.descriptor.size
        warnings == OrEmpty(left.descriptor.warnings)
                      \o OrEmpty(right.descriptor.warnings)
                      \o <<"One or both files are binary. Text diff view is not available in the MVP.">>
    IN  [status |-> 200,
         files |-> <<left.descriptor, right.descriptor>>,
         summary |-> [identical |-> hashesMatch /\ sizesMatch,
                      totalLines |-> 0,
                      added |-> 0,
                      removed |-> 0,
                      modified |-> 0,
                      changePercent |-> IF hashesMatch /\ sizesMatch THEN 0 ELSE 100],
         textDiff |-> Null,
         warnings |-> Some(warnings)]

POST(formData) ==
    IF formData = Null THEN validationError("Invalid form data.")
    ELSE
      LET files == SelectSeq(getAll(formData, "files"), IsFile)
      IN  IF Len(files) # 2
          THEN validationError("Please upload exactly two files.")
          ELSE IF \E i \in 1..Len(files) : FileSize(files[i]) > MAX_FILE_SIZE
          THEN validationError("Each file must be 5 MB or smaller.")
          ELSE IF FileSize(files[1]) + FileSize(files[2]) > MAX_COMBINED_SIZE
          THEN validationError("Combined file size must be 8 MB or smaller.")
          ELSE LET left == loadFile(files[1])
                   right == loadFile(files[2])
               IN  IF left.descriptor.kind = "text" /\ right.descriptor.kind = "text"
                   THEN TextPair(left, right)
                   ELSE BinaryPair(left, right)

\* the texts POST hands to computeTextDiff, or null when it returns without
\* calling it
TextsDiffed(formData) ==
    IF formData = Null THEN Null
    ELSE
      LET files == SelectSeq(getAll(formData, "files"), IsFile)
      IN  IF Len(files) # 2 THEN Null
          ELSE IF \E i \in 1..Len(files) : FileSize(files[i]) > MAX_FILE_SIZE THEN Null
          ELSE IF FileSize(files[1]) + FileSize(files[2]) > MAX_COMBINED_SIZE THEN Null
          ELSE LET left == loadFile(files[1])
                   right == loadFile(files[2])
               IN  IF left.descriptor.kind = "text" /\ right.descriptor.kind = "text"
                      /\ ~(NoText(left) \/ NoText(right))
                   THEN Some(<<left.text[1], right.text[1]>>)
                   ELSE Null

-----------------------------------------------------------------------------
(* The reconciler called once on a pair of texts                           *)

LineContents == {<<"a">>, <<"b">>}

RECURSIVE Unlines(_)
\* the text of a line sequence, every line terminated by a line feed
Unlines(ls) == IF ls = <<>> THEN <<>> ELSE Head(ls) \o <<LF>> \o Unlines(Tail(ls))

\* without the final terminator
Unterminated(t) == IF t = <<>> THEN t ELSE SubSeq(t, 1, Len(t) - 1)

LineTexts ==
    LET ts == {Unlines(ls) : ls \in SeqsUpTo(LineContents, MaxLines)}
    IN  ts \cup {Unterminated(t) : t \in ts}

CharTexts == SeqsUpTo({"a", LF, CR}, MaxChars)

Texts == LineTexts \cup CharTexts

\* a long text: LongLines terminated lines, the first LongChanged of them the
\* character c, the others empty
LongText(c) ==
    [i \in 1..(LongLines + LongChanged) |->
        IF i <= 2 * LongChanged /\ i % 2 = 1 THEN c ELSE LF]

LongPairs == {<<LongText("a"), LongText("b")>>, <<LongText("b"), LongText("a")>>}

NotClassified == "none"
NoResponse == [status |-> 0]

DiffIdle == original = <<>> /\ comparison = <<>> /\ diffResult = NotComputed
ClassifyIdle ==
    /\ buffer = <<>> /\ mime = Null /\ extension = Null
    /\ kind = NotClassified /\ inferredMime = Null
RouteIdle == request = Null /\ response = NoResponse

\* the state of Home after its first render
PageIdle ==
    /\ selected = <<>> /\ result = Null /\ error = Null /\ loading = FALSE
    /\ hideUnchanged = FALSE /\ pageWarnings = <<>> /\ activeChange = 0
    /\ inFlight = Null

InitDiff ==
    /\ \/ original \in Texts /\ comparison \in Texts
       \/ \E p \in LongPairs : original = p[1] /\ comparison = p[2]
    /\ diffResult = NotComputed
    /\ ClassifyIdle
    /\ RouteIdle
    /\ PageIdle

ComputeTextDiff ==
    /\ ~diffResult.computed
    /\ diffResult' = computeTextDiff(original, comparison)
    /\ UNCHANGED <<original, comparison, classifyVars, routeVars, pageVars>>

NextDiff == ComputeTextDiff

SpecDiff == InitDiff /\ [][NextDiff]_vars

\* the reconciler on the texts generated character by character only
InitRestyle ==
    /\ original \in CharTexts
    /\ comparison \in CharTexts
    /\ diffResult = NotComputed
    /\ ClassifyIdle
    /\ RouteIdle
    /\ PageIdle

SpecRestyle == InitRestyle /\ [][NextDiff]_vars

-----------------------------------------------------------------------------
(* The classifier called once on a buffer and its hints                    *)

Bytes == {0, 1, 65}
RunCounts == {1, 9, MAX_SNIFF_BYTES}
Runs == [byte : Bytes, count : RunCounts]
Buffers == SeqsUpTo(Runs, MaxRuns)

MimeHints == {Null, Some(<<>>),
              Some(<<"t", "e", "x", "t", "/", "p", "l", "a", "i", "n">>),
              Some(<<"T", "E", "X", "T", "/", "H", "T", "M", "L">>),
              Some(<<"a", "p", "p", "l", "i", "c", "a", "t", "i", "o", "n", "/", "j", "s", "o", "n">>),
              Some(<<"a", "p", "p", "l", "i", "c", "a", "t", "i", "o", "n", "/", "o", "c", "t", "e", "t", "-", "s", "t", "r", "e", "a", "m">>),
              Some(<<"a", "p", "p", "l", "i", "c", "a", "t", "i", "o", "n", "/", "x", "-", "e", "m", "p", "t", "y">>),
              Some(<<"a", "p", "p", "l", "i", "c", "a", "t", "i", "o", "n", "/", "m", "s", "w", "o", "r", "d">>),
              Some(<<"i", "m", "a", "g", "e", "/", "p", "n", "g">>),
              Some(<<"v", "i", "d", "e", "o", "/", "m", "p", "4">>)}

ExtensionHints == {Null, Some(<<>>), Some(<<"t", "s">>), Some(<<"T", "X", "T">>), Some(<<"b", "i", "n">>)}

InitClassify ==
    /\ buffer \in Buffers
    /\ mime \in MimeHints
    /\ extension \in ExtensionHints
    /\ kind = NotClassified
    /\ inferredMime = Null
    /\ DiffIdle
    /\ RouteIdle
    /\ PageIdle

ClassifyKind ==
    /\ kind = NotClassified
    /\ kind' = classifyKind(buffer, mime, extension)
    /\ UNCHANGED <<buffer, mime, extension, inferredMime, diffVars, routeVars, pageVars>>

NextClassify == ClassifyKind

SpecClassify == InitClassify /\ [][NextClassify]_vars

-----------------------------------------------------------------------------
(* The classification pipeline of loadFile: sniffMime, then classifyKind   *)
(* on the inferred media type                                              *)

\* buffers that start with a signature or with none
SniffBuffers ==
    {signature \o rest : signature \in {<<>>, PdfSignature, PngSignature, GzipSignature},
                         rest \in SeqsUpTo(Runs, MaxRuns - 1)}

InitSniff ==
    /\ buffer \in SniffBuffers
    /\ mime \in MimeHints
    /\ extension \in ExtensionHints
    /\ kind = NotClassified
    /\ inferredMime = Null
    /\ DiffIdle
    /\ RouteIdle
    /\ PageIdle

SniffMime ==
    /\ inferredMime = Null
    /\ inferredMime' = Some(sniffMime(buffer, mime, extension))
    /\ UNCHANGED <<buffer, mime, extension, kind, diffVars, routeVars, pageVars>>

ClassifySniffed ==
    /\ inferredMime # Null
    /\ kind = NotClassified
    /\ kind' = classifyKind(buffer, inferredMime, extension)
    /\ UNCHANGED <<buffer, mime, extension, inferredMime, diffVars, routeVars, pageVars>>

NextSniff == SniffMime \/ ClassifySniffed

SpecSniff == InitSniff /\ [][NextSniff]_vars

-----------------------------------------------------------------------------
(* One request to POST /api/diff                                           *)

File(name, type, buf) ==
    [field |-> "files", isFile |-> TRUE, name |-> name, type |-> type, buffer |-> buf]
StringEntry == [field |-> "files", isFile |-> FALSE]

\* a file sent under another field name
OtherFieldFile ==
    [field |-> "other", isFile |-> TRUE, name |-> <<"b", ".", "b", "i", "n">>,
     type |-> <<>>, buffer |-> <<>>]

\* the bytes of a text of the letters a, b and line feeds
TextBuffer(bytes) == Signature(bytes)

SmallBuffers == {<<>>,
                 TextBuffer(<<97, 10>>),
                 TextBuffer(<<97, 10, 98>>),
                 <<[byte |-> 0, count |-> 1]>>,
                 PdfSignature}

\* buffers at and over the size limits, of null bytes
LargeBuffers == {<<[byte |-> 0, count |-> MAX_FILE_SIZE]>>,
                 <<[byte |-> 0, count |-> MAX_FILE_SIZE + 1]>>,
                 <<[byte |-> 0, count |-> MAX_COMBINED_SIZE - MAX_FILE_SIZE]>>,
                 <<[byte |-> 0, count |-> MAX_COMBINED_SIZE - MAX_FILE_SIZE + 1]>>}

FileNames == {<<"a", ".", "t", "x", "t">>, <<"b", ".", "b", "i", "n">>}
FileTypes == {<<>>, <<"t", "e", "x", "t", "/", "p", "l", "a", "i", "n">>, <<"v", "i", "d", "e", "o", "/", "m", "p", "4">>}

\* a large file has no hint that makes it text: its text is never decoded
Files == {File(n, t, b) : n \in FileNames, t \in FileTypes, b \in SmallBuffers}
           \cup {File(<<"b", ".", "b", "i", "n">>, <<>>, b) : b \in LargeBuffers}

\* two entries at most, or two files and up to MaxExtraEntries more entries
Requests ==
    {Null}
      \cup {Some(r) : r \in SeqsUpTo(Files \cup {StringEntry, OtherFieldFile}, 2)}
      \cup {Some(r \o x) : r \in [1..2 -> Files],
                           x \in SeqsUpTo({StringEntry, OtherFieldFile,
                                           File(<<"b", ".", "b", "i", "n">>, <<>>, <<>>)},
                                          MaxExtraEntries) \ {<<>>}}

InitRoute ==
    /\ request \in Requests
    /\ response = NoResponse
    /\ DiffIdle
    /\ ClassifyIdle
    /\ PageIdle

Post ==
    /\ response = NoResponse
    /\ response' = POST(request)
    /\ LET texts == TextsDiffed(request)
       IN  IF texts = Null THEN UNCHANGED diffVars
           ELSE /\ original' = texts[1][1]
                /\ comparison' = texts[1][2]
                /\ diffResult' = computeTextDiff(texts[1][1], texts[1][2])
    /\ UNCHANGED <<request, classifyVars, pageVars>>

NextRoute == Post

SpecRoute == InitRoute /\ [][NextRoute]_vars

-----------------------------------------------------------------------------
(* Properties of the reconciler                                            *)

leftLines == splitPreserve(normalizeNewlines(original))
rightLines == splitPreserve(normalizeNewlines(comparison))

LinesOfType(type) == {i \in 1..Len(diffResult.lines) : diffResult.lines[i].type = type}

EndsWithLF(t) == t # <<>> /\ t[Len(t)] = LF

\* both texts end with a line terminator, or neither does
SameTerminator ==
    EndsWithLF(normalizeNewlines(original)) = EndsWithLF(normalizeNewlines(comparison))

\* C3: computeTextDiff(s, s) is identical, with changePercent 0, no added, removed
\* or modified line and only unchanged lines; for s = "" it has no lines at all
C3_IdenticalInputs ==
    (diffResult.computed /\ original = comparison) =>
        /\ diffResult.summary.identical
        /\ diffResult.summary.changePercent = 0
        /\ diffResult.summary.added = 0
        /\ diffResult.summary.removed = 0
        /\ diffResult.summary.modified = 0
        /\ \A i \in 1..Len(diffResult.lines) : diffResult.lines[i].type = "unchanged"
        /\ (original = <<>> =>
               diffResult.summary.totalLines = 0 /\ diffResult.lines = <<>>)

C3_Witness ==
    /\ diffResult.computed
    /\ original = comparison
    /\ Len(diffResult.lines) >= 2
    /\ \E i \in 1..Len(original) : original[i] = CR

NewlineStyles == {<<LF>>, <<CR, LF>>, <<CR>>}

RECURSIVE Restyle(_, _)
\* the text with every line feed replaced by the newline of the style
Restyle(t, style) ==
    IF t = <<>> THEN <<>>
    ELSE (IF Head(t) = LF THEN style ELSE <<Head(t)>>) \o Restyle(Tail(t), style)

\* what the newline-style claim compares: the summary and, line by line, the type
\* and the two texts
Visible(r) ==
    [summary |-> r.summary,
     lines |-> [i \in 1..Len(r.lines) |->
                  <<r.lines[i].type, r.lines[i].before, r.lines[i].after>>]]

RestyledAlike ==
    \A s1 \in NewlineStyles, s2 \in NewlineStyles :
        Visible(computeTextDiff(Restyle(original, s1), Restyle(comparison, s2)))
            = Visible(diffResult)

\* a line feed directly after a carriage return
HasCRLF(t) == \E i \in 1..(Len(t) - 1) : t[i] = CR /\ t[i + 1] = LF

\* C4 as stated: for all texts, replacing every \n by \r\n or \r in either or both
\* texts leaves the summary and the lines' types and texts the same
C4_RestyleAnyText == diffResult.computed => RestyledAlike

\* C4: for texts in which no line feed directly follows a carriage return,
\* replacing every \n by \r\n or \r in either or both texts leaves the summary and
\* the lines' types and texts the same
C4_RestyleWithoutCRLF ==
    (diffResult.computed /\ ~HasCRLF(original) /\ ~HasCRLF(comparison)) => RestyledAlike

C4_Witness ==
    /\ diffResult.computed
    /\ ~HasCRLF(original) /\ ~HasCRLF(comparison)
    /\ \E i \in 1..Len(original) : original[i] = LF
    /\ \E i \in 1..Len(comparison) : comparison[i] = LF
    /\ Len(leftLines) >= 2 /\ Len(rightLines) >= 2
    /\ LinesOfType("modified") # {}
    /\ LinesOfType("unchanged") # {}

ChangedAt == {k \in 1..Len(leftLines) : leftLines[k] # rightLines[k]}

\* the comparison is the original with the content of exactly one line changed
OneLineChanged ==
    /\ Len(leftLines) >= 1
    /\ Len(leftLines) = Len(rightLines)
    /\ SameTerminator
    /\ Cardinality(ChangedAt) = 1

OneModifiedLine(k) ==
    /\ Cardinality(LinesOfType("modified")) = 1
    /\ \A i \in LinesOfType("modified") :
          /\ diffResult.lines[i].before = Some(leftLines[k])
          /\ diffResult.lines[i].after = Some(rightLines[k])
    /\ diffResult.summary.modified = 1
    /\ diffResult.summary.added = 0
    /\ diffResult.summary.removed = 0

\* neither the old nor the new text of line k is the text of a line next to it
DiffersFromNeighbours(k) ==
    \A j \in {k - 1, k + 1} \cap (1..Len(leftLines)) :
        leftLines[j] # leftLines[k] /\ leftLines[j] # rightLines[k]

LineCount(t) ==
    LET n == normalizeNewlines(t)
    IN  Cardinality({i \in 1..Len(n) : n[i] = LF})
            + (IF n # <<>> /\ n[Len(n)] # LF THEN 1 ELSE 0)

\* round(100 * c / t), halves up, clamped to [0, 100]; 0 when t = 0
ExactPercent(c, t) ==
    IF t = 0 THEN 0 ELSE Min(100, Max(0, (200 * c + t) \div (2 * t)))

\* C6: totalLines is the larger line count and changePercent is
\* round(100 * (added + removed + modified) / totalLines) clamped to [0, 100]
C6_TotalAndPercent ==
    diffResult.computed =>
        LET changed == Cardinality(LinesOfType("added"))
                         + Cardinality(LinesOfType("removed"))
                         + Cardinality(LinesOfType("modified"))
        IN  /\ diffResult.summary.totalLines
                  = Max(LineCount(original), LineCount(comparison))
            /\ diffResult.summary.changePercent
                  = ExactPercent(changed, diffResult.summary.totalLines)
            /\ diffResult.summary.changePercent \in 0..100

\* the comparison's lines are the original's with one line inserted at k
InsertedAt(k) ==
    /\ Len(rightLines) = Len(leftLines) + 1
    /\ k \in 1..Len(rightLines)
    /\ leftLines = SubSeq(rightLines, 1, k - 1)
                     \o SubSeq(rightLines, k + 1, Len(rightLines))

\* C7: one line inserted gives added = 1, removed = 0, modified = 0, not identical,
\* totalLines the comparison's line count, and the inserted line emitted as added
C7_OneLineInserted ==
    (diffResult.computed /\ \E k \in 1..Len(rightLines) : InsertedAt(k)) =>
        /\ diffResult.summary.added = 1
        /\ diffResult.summary.removed = 0
        /\ diffResult.summary.modified = 0
        /\ ~diffResult.summary.identical
        /\ diffResult.summary.totalLines = Len(rightLines)
        /\ \E i \in LinesOfType("added"), k \in 1..Len(rightLines) :
              InsertedAt(k) /\ diffResult.lines[i].after = Some(rightLines[k])

\* C8: every emitted line has the shape of its type
C8_LineShapes ==
    diffResult.computed =>
        \A i \in 1..Len(diffResult.lines) :
            LET l == diffResult.lines[i]
            IN  /\ l.type \in {"unchanged", "added", "removed", "modified"}
                /\ l.type = "unchanged" =>
                      l.oldNumber # Null /\ l.newNumber # Null
                        /\ l.before # Null /\ l.before = l.after
                /\ l.type = "added" =>
                      l.oldNumber = Null /\ l.before = Null
                        /\ l.newNumber # Null /\ l.after # Null
                /\ l.type = "removed" =>
                      l.newNumber = Null /\ l.after = Null
                        /\ l.oldNumber # Null /\ l.before # Null
                /\ l.type = "modified" =>
                      l.oldNumber # Null /\ l.newNumber # Null
                        /\ l.before # Null /\ l.after # Null

C8_Witness ==
    /\ diffResult.computed
    /\ \A type \in {"unchanged", "added", "removed", "modified"} :
          LinesOfType(type) # {}

\* C9: every modified line has a before text different from its after text
C9_ModifiedTextsDiffer ==
    diffResult.computed =>
        \A i \in LinesOfType("modified") :
            diffResult.lines[i].before # diffResult.lines[i].after

-----------------------------------------------------------------------------
(* Properties of the classifier                                            *)

HasNul(buf) == \E i \in 1..Len(buf) : buf[i].byte = 0

\* the lowercased media type starts with one of the text hints
HasTextMime(mimeHint) ==
    \E hint \in TEXT_MIME_HINTS : startsWith(toLowerCase(OrEmpty(mimeHint)), hint)

\* the lowercased extension is one of the text extensions
HasTextExtension(extensionHint) ==
    toLowerCase(OrEmpty(extensionHint)) \in TEXT_EXT_HINTS

\* C1 as stated: a buffer that holds a null byte is binary whatever the hints
C1_NulAlwaysBinary ==
    (kind # NotClassified /\ HasNul(buffer)) => kind = "binary"

\* C1: a buffer with a null byte among its first MAX_SNIFF_BYTES bytes is binary
\* when the media type starts with no text hint and the extension is no text
\* extension
C1_NulBinaryWithoutTextHint ==
    (/\ kind # NotClassified
     /\ HasNul(subarray(buffer, MAX_SNIFF_BYTES))
     /\ ~HasTextMime(mime)
     /\ ~HasTextExtension(extension)) => kind = "binary"

C1_Witness ==
    /\ kind = "binary"
    /\ Len(buffer) = 2
    /\ buffer[1] = [byte |-> 65, count |-> 9]
    /\ buffer[2].byte = 0
    /\ mime = Some(<<"a", "p", "p", "l", "i", "c", "a", "t", "i", "o", "n", "/", "o", "c", "t", "e", "t", "-", "s", "t", "r", "e", "a", "m">>)
    /\ extension = Some(<<"b", "i", "n">>)

\* C2: a media type that begins with text/ makes the verdict text, whatever the
\* bytes and the extension
C2_TextMimeIsText ==
    (kind # NotClassified /\ mime # Null /\ startsWith(mime[1], <<"t", "e", "x", "t", "/">>))
        => kind = "text"

C2_Witness ==
    /\ kind = "text"
    /\ mime = Some(<<"t", "e", "x", "t", "/", "p", "l", "a", "i", "n">>)
    /\ extension = Some(<<"b", "i", "n">>)
    /\ HasNul(buffer)
    /\ \E i \in 1..Len(buffer) : buffer[i].byte = 1

-----------------------------------------------------------------------------
(* Properties of POST /api/diff                                            *)

RequestFiles ==
    IF request = Null THEN <<>>
    ELSE SelectSeq(SelectSeq(request[1], LAMBDA entry : entry.field = "files"), IsFile)

\* exactly two files, each and both together within the size limits
PassesValidation ==
    /\ request # Null
    /\ Len(RequestFiles) = 2
    /\ \A i \in 1..2 : FileSize(RequestFiles[i]) <= MAX_FILE_SIZE
    /\ FileSize(RequestFiles[1]) + FileSize(RequestFiles[2]) <= MAX_COMBINED_SIZE

ClassifiedText(file) == loadFile(file).descriptor.kind = "text"

\* C10: a validated upload of two files classified as text is answered with a
\* DiffResult that holds the textDiff and the summary of computeTextDiff, never
\* with a validation error
C10_TextPairIsDiffed ==
    (/\ response # NoResponse
     /\ PassesValidation
     /\ \A i \in 1..2 : ClassifiedText(RequestFiles[i])) =>
        /\ response.status = 200
        /\ response.textDiff # Null
        /\ response.summary
             = computeTextDiff(decodeText(RequestFiles[1].buffer),
                               decodeText(RequestFiles[2].buffer)).summary

\* the limits as the contract states them
FiveMB == 5 * 1024 * 1024
EightMB == 8 * 1024 * 1024

\* exactly two file entries under the field files, each at most 5 MB and both
\* together at most 8 MB
TwoFilesWithinLimits ==
    /\ request # Null
    /\ Len(RequestFiles) = 2
    /\ \A i \in 1..2 : FileSize(RequestFiles[i]) <= FiveMB
    /\ FileSize(RequestFiles[1]) + FileSize(RequestFiles[2]) <= EightMB

CountAndSizeErrors ==
    {"Invalid form data.",
     "Please upload exactly two files.",
     "Each file must be 5 MB or smaller.",
     "Combined file size must be 8 MB or smaller."}

\* C11: files are classified and diffed only for a request with exactly two file
\* entries, each at most 5 MB and together at most 8 MB; any other request gets
\* status 400 with an error and no files, summary or textDiff; a request that
\* meets the three conditions is never rejected for count or size
C11_CountAndSizeValidation ==
    response # NoResponse =>
        /\ response.status = 200 => TwoFilesWithinLimits
        /\ ~TwoFilesWithinLimits =>
              /\ response.status = 400
              /\ DOMAIN response = {"status", "error"}
              /\ response.error \in CountAndSizeErrors
        /\ TwoFilesWithinLimits =>
              ~(response.status = 400 /\ response.error \in CountAndSizeErrors)

\* two files at the limits (5 MB and 3 MB) are accepted
C11_Witness ==
    /\ response # NoResponse
    /\ response.status = 200
    /\ Len(RequestFiles) = 2
    /\ FileSize(RequestFiles[1]) = FiveMB
    /\ FileSize(RequestFiles[1]) + FileSize(RequestFiles[2]) = EightMB
    /\ Len(request[1]) > 2

BinaryWarning == "One or both files are binary. Text diff view is not available in the MVP."

ClassifiedBinary(file) == loadFile(file).descriptor.kind = "binary"

SameBytes == RequestFiles[1].buffer = RequestFiles[2].buffer
               \/ (/\ hashBuffer(RequestFiles[1].buffer) = hashBuffer(RequestFiles[2].buffer)
                   /\ FileSize(RequestFiles[1]) = FileSize(RequestFiles[2]))

\* C12: a validated upload with at least one file classified binary is answered
\* without textDiff, with the binary warning and with the summary of zeros,
\* identical exactly when hashes and sizes are equal, changePercent 0 when
\* identical and 100 otherwise; computeTextDiff is not called
C12_BinaryPairSummary ==
    (/\ response # NoResponse
     /\ PassesValidation
     /\ \E i \in 1..2 : ClassifiedBinary(RequestFiles[i])) =>
        /\ response.status = 200
        /\ response.textDiff = Null
        /\ response.warnings # Null
        /\ \E i \in 1..Len(response.warnings[1]) : response.warnings[1][i] = BinaryWarning
        /\ response.summary = [identical |-> SameBytes,
                               totalLines |-> 0,
                               added |-> 0,
                               removed |-> 0,
                               modified |-> 0,
                               changePercent |-> IF SameBytes THEN 0 ELSE 100]
        /\ diffResult = NotComputed

\* a mixed pair: the first file text, the second binary
C12_Witness ==
    /\ response # NoResponse
    /\ PassesValidation
    /\ ClassifiedText(RequestFiles[1])
    /\ ClassifiedBinary(RequestFiles[2])
    /\ RequestFiles[1].buffer # <<>>
    /\ response.status = 200
    /\ response.summary.changePercent = 100

\* two binary files of the same bytes
C12_WitnessIdentical ==
    /\ response # NoResponse
    /\ PassesValidation
    /\ \A i \in 1..2 : ClassifiedBinary(RequestFiles[i])
    /\ response.status = 200
    /\ response.summary.identical

-----------------------------------------------------------------------------
(* Properties of sniffMime and of the classification pipeline              *)

TextPlain == <<"t", "e", "x", "t", "/", "p", "l", "a", "i", "n">>
OctetStream == <<"a", "p", "p", "l", "i", "c", "a", "t", "i", "o", "n", "/", "o", "c", "t", "e", "t", "-", "s", "t", "r", "e", "a", "m">>

Declared == mime # Null /\ mime[1] # <<>>

\* C13: sniffMime returns a non-empty media type: the signature's type if one
\* matched, else the declared type if present and non-empty, else text/plain if
\* the extension is (case-insensitively) a text extension, else
\* application/octet-stream
C13_SniffOrder ==
    inferredMime # Null =>
        LET detected == fileTypeFromBuffer(buffer)
        IN  /\ inferredMime[1] # <<>>
            /\ detected # Null => inferredMime[1] = detected[1]
            /\ (detected = Null /\ Declared) => inferredMime[1] = mime[1]
            /\ (detected = Null /\ ~Declared /\ HasTextExtension(extension))
                  => inferredMime[1] = TextPlain
            /\ (detected = Null /\ ~Declared /\ ~HasTextExtension(extension))
                  => inferredMime[1] = OctetStream

\* no signature, an empty declared type and the extension TXT
C13_Witness ==
    /\ inferredMime = Some(TextPlain)
    /\ fileTypeFromBuffer(buffer) = Null
    /\ buffer # <<>>
    /\ mime = Some(<<>>)
    /\ extension = Some(<<"T", "X", "T">>)

-----------------------------------------------------------------------------
(* Properties of the classifier: the extension rule                        *)

GenericTypes == {Null, Some(<<>>), Some(OctetStream), Some(<<"a", "p", "p", "l", "i", "c", "a", "t", "i", "o", "n", "/", "x", "-", "e", "m", "p", "t", "y">>)}

\* C14: with the declared media type absent, empty, application/octet-stream or
\* application/x-empty and the extension a text extension, the verdict is text
\* for every byte content
C14_TextExtensionIsText ==
    (kind # NotClassified /\ mime \in GenericTypes /\ HasTextExtension(extension))
        => kind = "text"

\* extension ts with application/octet-stream and a buffer of null and control
\* bytes
C14_Witness ==
    /\ kind = "text"
    /\ mime = Some(OctetStream)
    /\ extension = Some(<<"t", "s">>)
    /\ HasNul(buffer)
    /\ \E i \in 1..Len(buffer) : buffer[i].byte = 1

-----------------------------------------------------------------------------
(* Properties of the classification pipeline                               *)

\* the verdict of the pipeline for a declared type and an extension
PipelineKind(buf, declared, ext) ==
    classifyKind(buf, Some(sniffMime(buf, declared, ext)), ext)

\* C15: when a signature matches, the pipeline returns the signature's media
\* type and the verdict is decided by that type alone: binary for a type of the
\* binary table, text for a type of the text table, and the same verdict for
\* every declared media type and every extension
C15_SignatureDecides ==
    (kind # NotClassified /\ fileTypeFromBuffer(buffer) # Null) =>
        LET detected == fileTypeFromBuffer(buffer)[1]
        IN  /\ inferredMime = Some(detected)
            /\ (\E hint \in BINARY_MIME_HINTS : startsWith(detected, hint))
                  => kind = "binary"
            /\ (\E hint \in TEXT_MIME_HINTS : startsWith(detected, hint))
                  => kind = "text"
            /\ \A declared \in MimeHints, ext \in ExtensionHints :
                  PipelineKind(buffer, declared, ext) = kind

-----------------------------------------------------------------------------
(* Properties of the classifier: the byte sample                           *)

HasBinaryMime(mimeHint) ==
    \E hint \in BINARY_MIME_HINTS : startsWith(toLowerCase(OrEmpty(mimeHint)), hint)

\* the first min(length, 4096) bytes
Sample(buf) == subarray(buf, Min(ByteLength(buf), 4096))

RECURSIVE CountIn(_, _)
\* the number of bytes of a sample that are in the set
CountIn(sample, set) ==
    IF sample = <<>> THEN 0
    ELSE (IF Head(sample).byte \in set THEN Head(sample).count ELSE 0)
           + CountIn(Tail(sample), set)

\* the verdict the sample gives
SampleVerdict(buf) ==
    LET sample == Sample(buf)
        length == ByteLength(sample)
    IN  IF length = 0 THEN "text"
        ELSE IF CountIn(sample, {0}) > 0 THEN "binary"
        ELSE IF 10 * CountIn(sample, (1..6) \cup (14..31)) < length THEN "text"
        ELSE "binary"

\* C16: when no media-type prefix and no extension rule decides, the verdict
\* comes from the first min(length, 4096) bytes only: binary if one of them is
\* null, else text exactly when strictly less than 10% of them are in 0x01-0x06
\* or 0x0E-0x1F; an empty buffer is text
C16_SampleDecides ==
    (/\ kind # NotClassified
     /\ ~HasTextMime(mime)
     /\ ~HasBinaryMime(mime)
     /\ ~HasTextExtension(extension)) =>
        /\ kind = SampleVerdict(buffer)
        /\ kind = classifyKind(Sample(buffer), mime, extension)

\* one control byte among ten bytes, exactly 10%, is binary
C16_Witness ==
    /\ kind = "binary"
    /\ buffer = <<[byte |-> 1, count |-> 1], [byte |-> 65, count |-> 9]>>
    /\ mime = Null
    /\ extension = Some(<<"b", "i", "n">>)

\* a null byte after the first 4096 bytes leaves the verdict text
C16_WitnessBeyondSample ==
    /\ kind = "text"
    /\ buffer = <<[byte |-> 65, count |-> 4096], [byte |-> 0, count |-> 1]>>
    /\ mime = Null
    /\ extension = Null

-----------------------------------------------------------------------------
(* Properties of the reconciler: the edit script                           *)

RECURSIVE LCSRow(_, _, _, _)
\* the row of the longest-common-subsequence table for the line x, from the row
\* before it: cell j is for the first j lines of ys
LCSRow(prev, x, ys, acc) ==
    LET j == Len(acc) + 1
        diagonal == IF j = 1 THEN 0 ELSE prev[j - 1]
        left == IF j = 1 THEN 0 ELSE acc[j - 1]
    IN  IF j > Len(ys) THEN acc
        ELSE LCSRow(prev, x, ys,
                    Append(acc, IF x = ys[j] THEN diagonal + 1 ELSE Max(prev[j], left)))

RECURSIVE LCSRows(_, _, _, _)
LCSRows(xs, ys, i, prev) ==
    IF i > Len(xs) THEN prev
    ELSE LCSRows(xs, ys, i + 1, LCSRow(prev, xs[i], ys, <<>>))

\* the length of a longest common subsequence of two line sequences
LCSLength(xs, ys) ==
    IF ys = <<>> THEN 0
    ELSE LCSRows(xs, ys, 1, [j \in 1..Len(ys) |-> 0])[Len(ys)]

\* C17: the edit script is minimal over whole lines: the number of unchanged
\* lines emitted is the length of a longest common subsequence of the original
\* and the comparison line sequences
C17_UnchangedIsLCS ==
    diffResult.computed =>
        Cardinality(LinesOfType("unchanged")) = LCSLength(leftLines, rightLines)

\* the edit script: the runs diffLines returns for the normalized texts
EditScript == diffLines(normalizeNewlines(original), normalizeNewlines(comparison))

\* the lines of a run
RunLines(run) == splitPreserve(run.value)

PairedWithNext(script, k) ==
    script[k].removed /\ k < Len(script) /\ script[k + 1].added

PairedWithPrevious(script, k) ==
    script[k].added /\ k > 1 /\ script[k - 1].removed

\* type, before and after of the lines a run is to emit
ExpectedOfRun(script, k) ==
    LET run == script[k]
        ls == RunLines(run)
    IN  IF PairedWithNext(script, k)
        THEN LET as == RunLines(script[k + 1])
                 d == Len(ls)
                 i == Len(as)
             IN  [j \in 1..Max(d, i) |->
                    IF j <= Min(d, i) THEN <<"modified", Some(ls[j]), Some(as[j])>>
                    ELSE IF d > i THEN <<"removed", Some(ls[j]), Null>>
                    ELSE <<"added", Null, Some(as[j])>>]
        ELSE IF PairedWithPrevious(script, k) THEN <<>>
        ELSE IF run.added THEN [j \in 1..Len(ls) |-> <<"added", Null, Some(ls[j])>>]
        ELSE IF run.removed THEN [j \in 1..Len(ls) |-> <<"removed", Some(ls[j]), Null>>]
        ELSE [j \in 1..Len(ls) |-> <<"unchanged", Some(ls[j]), Some(ls[j])>>]

EmittedShapes ==
    [n \in 1..Len(diffResult.lines) |->
        <<diffResult.lines[n].type, diffResult.lines[n].before, diffResult.lines[n].after>>]

\* C18: a removed run of d lines directly followed by an added run of i lines
\* emits min(d, i) modified lines pairing the j-th removed with the j-th added
\* line, then the other lines of the longer run as removed or as added; every
\* other removed or added run emits only removed or only added lines, and no
\* modified line comes from anywhere else
C18_ModificationGrouping ==
    diffResult.computed =>
        LET script == EditScript
        IN  /\ \A k \in 1..Len(script) : Len(RunLines(script[k])) = script[k].count
            /\ EmittedShapes = Concat([k \in 1..Len(script) |-> ExpectedOfRun(script, k)])

\* a removed run paired with a shorter added run, and an added run on its own
C18_Witness ==
    /\ diffResult.computed
    /\ LET script == EditScript
       IN  /\ \E k \in 1..Len(script) :
                 PairedWithNext(script, k) /\ script[k].count > script[k + 1].count
           /\ \E k \in 1..Len(script) :
                 script[k].added /\ ~PairedWithPrevious(script, k)

-----------------------------------------------------------------------------
(* Properties of the reconciler: line numbers and texts                    *)

\* the values of a nullable field of the emitted lines, in output order
NonNull(field) ==
    LET present == SelectSeq(diffResult.lines, LAMBDA line : line[field] # Null)
    IN  [n \in 1..Len(present) |-> present[n][field][1]]

\* C19: the oldNumber values of the emitted lines that have one are, in output
\* order, 1, 2, ..., the number of original lines, and the newNumber values are
\* 1, 2, ..., the number of comparison lines
C19_LineNumbersCount ==
    diffResult.computed =>
        /\ NonNull("oldNumber") = [n \in 1..Len(leftLines) |-> n]
        /\ NonNull("newNumber") = [n \in 1..Len(rightLines) |-> n]

\* an added and a modified line before the last line, the two numbers of which
\* differ
C19_Witness ==
    /\ diffResult.computed
    /\ LinesOfType("added") # {}
    /\ LinesOfType("modified") # {}
    /\ LET last == diffResult.lines[Len(diffResult.lines)]
       IN  /\ last.type \in {"unchanged", "modified"}
           /\ last.oldNumber # last.newNumber
           /\ last.oldNumber = Some(Len(leftLines))
           /\ last.newNumber = Some(Len(rightLines))

\* C20: the before texts of the emitted lines that have one are, in output
\* order, the original line sequence, and the after texts are the comparison
\* line sequence
C20_TextsReconstructInputs ==
    diffResult.computed =>
        /\ NonNull("before") = leftLines
        /\ NonNull("after") = rightLines

\* a modification group with a line left over, an unchanged empty line, and
\* more than one emitted line on each side
C20_Witness ==
    /\ diffResult.computed
    /\ LinesOfType("modified") # {}
    /\ LinesOfType("removed") \cup LinesOfType("added") # {}
    /\ \E n \in LinesOfType("unchanged") : diffResult.lines[n].before = Some(<<>>)
    /\ Len(leftLines) >= 2
    /\ Len(rightLines) >= 2

-----------------------------------------------------------------------------
(* src/app/page.tsx: the uploader page Home.  Every handler is one action, *)
(* with the render and the effects that follow its state updates.  The     *)
(* state dragging only styles the drop zone and is left out.               *)

PAGE_MAX_FILE_SIZE == 5 * 1024 * 1024
PAGE_MAX_COMBINED_SIZE == 8 * 1024 * 1024
BLOCKED_PREFIXES == {<<"v", "i", "d", "e", "o", "/">>, <<"a", "u", "d", "i", "o", "/">>}

isChange(line) == line.type # "unchanged"

\* result?.textDiff is present
HasTextDiff(res) == res # Null /\ res[1].textDiff # Null

\* useMemo displayedLines, for a result and a checkbox value
displayedLines(res, hide) ==
    IF ~HasTextDiff(res) THEN <<>>
    ELSE IF hide THEN SelectSeq(res[1].textDiff[1], isChange)
    ELSE res[1].textDiff[1]

\* useMemo changePositions: the 0-based indices of the change lines
changePositions(lines) ==
    SelectSeq([n \in 1..Len(lines) |-> n - 1], LAMBDA idx : isChange(lines[idx + 1]))

\* selected.map((item) => item.file): a selected item is its file
currentFiles == selected

hasExactlyTwo == Len(selected) = 2

\* the error message, or null
validateFiles(files) ==
    IF Len(files) = 0 THEN Some("Select at least one file.")
    ELSE IF Len(files) > 2
    THEN Some("Only two files can be compared at once. Reset to replace.")
    ELSE IF \E n \in 1..Len(files) : FileSize(files[n]) > PAGE_MAX_FILE_SIZE
    THEN Some("Each file must be 5 MB or smaller.")
    ELSE IF \E n \in 1..Len(files) :
              \E prefix \in BLOCKED_PREFIXES : startsWith(files[n].type, prefix)
    THEN Some("Videos and audio files are blocked for the MVP.")
    ELSE IF Len(files) = 2
            /\ FileSize(files[1]) + FileSize(files[2]) > PAGE_MAX_COMBINED_SIZE
    THEN Some("Combined file size must be 8 MB or smaller.")
    ELSE Null

\* no effect resets activeChange
ResetEffect_Never(newResult, newHide, fresh, current) == current

\* the effect on [hideUnchanged, result?.textDiff]: setActiveChange(0) when one of
\* the two changed in the render; a text diff that arrives is a new array
ResetEffect(newResult, newHide, fresh, current) ==
    IF newHide # hideUnchanged
       \/ HasTextDiff(result) # HasTextDiff(newResult)
       \/ (fresh /\ HasTextDiff(newResult))
    THEN 0
    ELSE current

\* the body of a response of status 200
Payload(resp) ==
    [files |-> resp.files, summary |-> resp.summary,
     textDiff |-> resp.textDiff, warnings |-> resp.warnings]

\* the message of the error fetch rejects with
NetworkErrorMessage == "Failed to fetch"

\* onDrop and onChange of the file input: handleFiles(files) for a file list that
\* is not empty
HandleFiles(files) ==
    /\ files # <<>>
    /\ LET merged == currentFiles \o files
           invalid == validateFiles(merged)
       IN  IF invalid # Null
           THEN /\ error' = invalid
                /\ UNCHANGED <<selected, result, pageWarnings, activeChange>>
           ELSE /\ selected' = SubSeq(merged, 1, Min(2, Len(merged)))
                /\ error' = Null
                /\ result' = Null
                /\ pageWarnings' = <<>>
                /\ activeChange' = ResetEffect(Null, hideUnchanged, FALSE, activeChange)
    /\ UNCHANGED <<loading, hideUnchanged, inFlight>>

\* a click on "Compare files", enabled with two files and no submission being
\* processed: submit up to the await of fetch
Submit ==
    /\ hasExactlyTwo /\ ~loading
    /\ LET invalid == validateFiles(currentFiles)
       IN  IF invalid # Null
           THEN /\ error' = invalid
                /\ UNCHANGED <<loading, pageWarnings, inFlight>>
           ELSE /\ loading' = TRUE
                /\ error' = Null
                /\ pageWarnings' = <<>>
                /\ inFlight' = Some(currentFiles)
    /\ UNCHANGED <<selected, result, hideUnchanged, activeChange>>

\* the fetch settles: submit from the await to its end
Receive ==
    /\ inFlight # Null
    /\ \E failed \in BOOLEAN :
          LET resp == POST(Some(inFlight[1]))
          IN  IF failed
              THEN /\ result' = Null
                   /\ error' = Some(NetworkErrorMessage)
                   /\ activeChange' = ResetEffect(Null, hideUnchanged, FALSE, activeChange)
                   /\ UNCHANGED <<pageWarnings, hideUnchanged>>
              ELSE IF resp.status # 200
              THEN /\ result' = Null
                   /\ error' = Some(resp.error)
                   /\ activeChange' = ResetEffect(Null, hideUnchanged, FALSE, activeChange)
                   /\ UNCHANGED <<pageWarnings, hideUnchanged>>
              ELSE /\ result' = Some(Payload(resp))
                   /\ pageWarnings' = OrEmpty(resp.warnings)
                   /\ hideUnchanged' = FALSE
                   /\ activeChange' = ResetEffect(Some(Payload(resp)), FALSE, TRUE, 0)
                   /\ UNCHANGED error
    /\ loading' = FALSE
    /\ inFlight' = Null
    /\ UNCHANGED selected

\* a click on "Reset"
Clear ==
    /\ selected' = <<>>
    /\ result' = Null
    /\ error' = Null
    /\ pageWarnings' = <<>>
    /\ hideUnchanged' = FALSE
    /\ activeChange' = ResetEffect(Null, FALSE, FALSE, activeChange)
    /\ UNCHANGED <<loading, inFlight>>

\* a click on the checkbox "Hide unchanged lines", shown with a text diff
ToggleHidden ==
    /\ HasTextDiff(result)
    /\ hideUnchanged' = ~hideUnchanged
    /\ activeChange' = ResetEffect(result, ~hideUnchanged, FALSE, activeChange)
    /\ UNCHANGED <<selected, result, error, loading, pageWarnings, inFlight>>

\* a click on "Previous change", enabled when there are changes
OnPrev ==
    /\ HasTextDiff(result)
    /\ LET positions == changePositions(displayedLines(result, hideUnchanged))
       IN  /\ Len(positions) > 0
           /\ activeChange' = IF Len(positions) # 0 THEN Max(activeChange - 1, 0) ELSE 0
    /\ UNCHANGED <<selected, result, error, loading, hideUnchanged, pageWarnings, inFlight>>

\* a click on "Next change", enabled when there are changes
OnNext ==
    /\ HasTextDiff(result)
    /\ LET positions == changePositions(displayedLines(result, hideUnchanged))
       IN  /\ Len(positions) > 0
           /\ activeChange' = IF Len(positions) # 0
                              THEN Min(activeChange + 1, Len(positions) - 1)
                              ELSE 0
    /\ UNCHANGED <<selected, result, error, loading, hideUnchanged, pageWarnings, inFlight>>

\* the files of the user: two texts of five lines, two of which are the same, a
\* binary file and a video
PageFiles ==
    {File(<<"a", ".", "t", "x", "t">>, <<"t", "e", "x", "t", "/", "p", "l", "a", "i", "n">>, TextBuffer(<<97, 10, 98, 10, 97, 10, 98, 10, 97, 10>>)),
     File(<<"b", ".", "t", "x", "t">>, <<"t", "e", "x", "t", "/", "p", "l", "a", "i", "n">>, TextBuffer(<<98, 10, 98, 10, 98, 10, 98, 10, 98, 10>>)),
     File(<<"b", ".", "b", "i", "n">>, <<>>, <<[byte |-> 0, count |-> 1]>>),
     File(<<"c", ".", "m", "p", "4">>, <<"v", "i", "d", "e", "o", "/", "m", "p", "4">>, <<[byte |-> 0, count |-> 1]>>)}

\* the file lists of one drop or one choice in the file dialog
FileLists == SeqsUpTo(PageFiles, MaxIncoming) \ {<<>>}

InitPage ==
    /\ PageIdle
    /\ DiffIdle
    /\ ClassifyIdle
    /\ RouteIdle

NextPage ==
    \/ \E files \in FileLists :
          HandleFiles(files) /\ UNCHANGED <<diffVars, classifyVars, routeVars>>
    \/ Submit /\ UNCHANGED <<diffVars, classifyVars, routeVars>>
    \/ Receive /\ UNCHANGED <<diffVars, classifyVars, routeVars>>
    \/ Clear /\ UNCHANGED <<diffVars, classifyVars, routeVars>>
    \/ ToggleHidden /\ UNCHANGED <<diffVars, classifyVars, routeVars>>
    \/ OnPrev /\ UNCHANGED <<diffVars, classifyVars, routeVars>>
    \/ OnNext /\ UNCHANGED <<diffVars, classifyVars, routeVars>>

SpecPage == InitPage /\ [][NextPage]_vars

-----------------------------------------------------------------------------
(* Properties of the uploader page                                         *)

\* C21: whenever a result is held, exactly two files are selected and the result
\* is the response to the submission of those two files
C21_ResultMatchesSelection ==
    result # Null =>
        /\ Len(selected) = 2
        /\ LET resp == POST(Some(selected))
           IN  resp.status = 200 /\ result = Some(Payload(resp))

\* the number of change lines shown
ChangeCount == Len(changePositions(displayedLines(result, hideUnchanged)))

\* C22: activeChange is an index in [0, max(0, number of change lines - 1)]; Next
\* at the last change and Previous at the first change leave it unchanged; a new
\* result and a toggle of hide-unchanged reset it to 0
C22_ActiveChangeInRange ==
    /\ [](activeChange \in 0..Max(0, ChangeCount - 1))
    /\ [][/\ (OnNext /\ activeChange = ChangeCount - 1) => activeChange' = activeChange
          /\ (OnPrev /\ activeChange = 0) => activeChange' = activeChange
          /\ ToggleHidden => activeChange' = 0
          /\ (Receive /\ result' # Null) => activeChange' = 0]_vars

\* at the last of several changes, with the unchanged lines hidden
C22_Witness ==
    /\ ChangeCount > 2
    /\ activeChange = ChangeCount - 1
    /\ hideUnchanged
    /\ Len(result[1].textDiff[1]) > ChangeCount

=============================================================================
